---- MODULE Spec2Model ----
(***************************************************************************)
(* Model of mergekit/moe/router.py: get_gate_params (the gate-vector       *)
(* computation) and warn_degenerate_gates (the degeneracy diagnostic).     *)
(*                                                                         *)
(* Tensors are sequences of sequences of integers, indexed from 1 except   *)
(* for the layer index of warn_degenerate_gates, which keeps Python's      *)
(* range(num_layers) = 0..num_layers-1 because the index is printed.       *)
(*                                                                         *)
(* Floating point is modelled in fixed point on two grids:                 *)
(*   raw  grid : hidden states and embedding weights, one quantum = 5e-9,  *)
(*               so that the clamp value 1e-8 is Eps = 2 quanta;           *)
(*   unit grid : the result of a normalisation, 1.0 = OutScale quanta.     *)
(* A norm is computed on a grid Fine times finer than its operand.         *)
(***************************************************************************)
EXTENDS Integers, Sequences, FiniteSets, TLC

NumLayers == 2
HiddenSize == 2
MaxExperts == 2
MaxWarnLayers == 4
OutScale == 1000
Fine == 100
Eps == 2

VARIABLES
  call,          \* which function of router.py this behaviour runs
  pc,            \* position inside the running function
  mode,          \* get_gate_params: the mode argument
  experts,       \* get_gate_params: the experts argument
  tokenizer,     \* get_gate_params: the tokenizer argument
  weights,       \* the checkpoint behind model_ref (seed of its weights)
  loaded,        \* what the one-time setup loaded: "none", "embed", "model"
  i,             \* index of the expert the loop is at
  tokenized,     \* the batch last returned by tokenize_prompts
  hidden_states, \* the loop's hidden_states tensor
  gate_vecs,     \* list of per-expert tensors; the tensor scanned by the diagnostic
  result,        \* return value
  err,           \* exception raised, "" when none
  trace,         \* calls made so far, in order
  classifier_shape, \* shape of the tensor the external classifier would return
  threshold,     \* warn_degenerate_gates: threshold argument
  idx,           \* warn_degenerate_gates: loop index
  degen_indices, \* warn_degenerate_gates: flagged layers
  log            \* warnings emitted through logging.warning

vars == <<call, pc, mode, experts, tokenizer, weights, loaded, i, tokenized,
          hidden_states, gate_vecs, result, err, trace, classifier_shape,
          threshold, idx, degen_indices, log>>

None == <<>>

----------------------------------------------------------------------------
(* Arithmetic helpers *)

Max(a, b) == IF a >= b THEN a ELSE b
Min(a, b) == IF a <= b THEN a ELSE b

\* true division x / d, rounded to the nearest quantum
Div(x, d) == (2 * x + d) \div (2 * d)

RECURSIVE SumSeq(_)
SumSeq(s) == IF s = <<>> THEN 0 ELSE Head(s) + SumSeq(Tail(s))

RECURSIVE SqrtIter(_, _, _)
SqrtIter(n, lo, hi) ==
  IF lo >= hi THEN lo
  ELSE LET mid == (lo + hi + 1) \div 2
       IN IF mid * mid <= n THEN SqrtIter(n, mid, hi) ELSE SqrtIter(n, lo, mid - 1)

\* floor of the square root
Sqrt(n) == SqrtIter(n, 0, Min(n, 46340))

Dot(u, v) == SumSeq([h \in 1..Len(u) |-> u[h] * v[h]])

\* tensor.norm(p=2, dim=-1) of one vector, on the grid `fine` times finer
Norm2(v, fine) == Sqrt(Dot(v, v) * fine * fine)

----------------------------------------------------------------------------
(* The external collaborators: tokenizer vocabulary, checkpoint weights *)

Vocab == <<"<pad>", "<s>", "a", "b">>
PadId == 0
TokenId(t) == (CHOOSE k \in 1..Len(Vocab) : Vocab[k] = t) - 1

model_cfg == [num_hidden_layers |-> NumLayers, hidden_size |-> HiddenSize, vocab_size |-> Len(Vocab)]

\* model.embed_tokens.weight of the checkpoint, (vocab_size, hidden_size), raw grid
EmbedWeight(w) == [t \in 1..model_cfg.vocab_size |-> [h \in 1..model_cfg.hidden_size |-> ((w + 3 * (t - 1) + 2 * h) % 5) - 2]]

\* output.hidden_states of a forward pass: num_layers + 1 tensors (batch, seq, hidden)
ModelForward(w, tok) == [k \in 1..(model_cfg.num_hidden_layers + 1) |-> [b \in 1..Len(tok.input_ids) |-> [s \in 1..Len(tok.input_ids[b]) |-> [h \in 1..model_cfg.hidden_size |-> 3 * (((w + 2 * k + 3 * tok.input_ids[b][s] + s + 5 * h) % 9) - 4)]]]]

----------------------------------------------------------------------------
(* tokenize_prompts *)

\* tokenizer(...) with padding=True, add_special_tokens=False: ids per prompt,
\* right-padded to the longest prompt, and the attention mask
Encode(texts) ==
  LET width == CHOOSE m \in 0..10 : (\A p \in 1..Len(texts) : Len(texts[p]) <= m) /\ (\E p \in 1..Len(texts) : Len(texts[p]) = m)
  IN [input_ids |-> [p \in 1..Len(texts) |-> [s \in 1..width |-> IF s <= Len(texts[p]) THEN TokenId(texts[p][s]) ELSE PadId]],
      attention_mask |-> [p \in 1..Len(texts) |-> [s \in 1..width |-> IF s <= Len(texts[p]) THEN 1 ELSE 0]]]

tokenize_prompts(prompts, tk) ==
  Encode([p \in 1..Len(prompts) |-> (IF tk.bos_token = "" THEN <<>> ELSE <<tk.bos_token>>) \o prompts[p]])

----------------------------------------------------------------------------
(* get_hidden_states *)

\* hidden_states.sum(dim=2) / hidden_states.shape[2]
MeanOverSeq(x) == [k \in 1..Len(x) |-> [b \in 1..Len(x[k]) |-> [h \in 1..Len(x[k][b][1]) |-> Div(SumSeq([s \in 1..Len(x[k][b]) |-> x[k][b][s][h]]), Len(x[k][b]))]]]

\* hidden_states[:, :, -1, :]
LastOverSeq(x) == [k \in 1..Len(x) |-> [b \in 1..Len(x[k]) |-> x[k][b][Len(x[k][b])]]]

\* hidden_states.sum(dim=1) / hidden_states.shape[1]
MeanOverBatch(x) == [k \in 1..Len(x) |-> [h \in 1..Len(x[k][1]) |-> Div(SumSeq([b \in 1..Len(x[k]) |-> x[k][b][h]]), Len(x[k]))]]

\* torch.stack(output.hidden_states[:-1])
DropFinal(out) == SubSeq(out, 1, Len(out) - 1)

get_hidden_states(w, tok, average) ==
  LET stacked == DropFinal(ModelForward(w, tok))
      reduced == IF average THEN MeanOverSeq(stacked) ELSE LastOverSeq(stacked)
  IN MeanOverBatch(reduced)

----------------------------------------------------------------------------
(* get_cheap_embedding *)

\* x / x.norm(p=2, dim=-1, keepdim=True).clamp(min=eps) for one vector; the
\* norm is taken on a grid `fine` times finer than the operand's, where eps
\* is epsfine quanta; the result is on the unit grid
Normalize(v, fine, epsfine) ==
  LET den == Max(Norm2(v, fine), epsfine)
  IN [h \in 1..Len(v) |-> Div(v[h] * OutScale * fine, den)]

get_cheap_embedding(embed, tok, num_layers, vocab_size) ==
  LET B == Len(tok.input_ids)
      S == Len(tok.input_ids[1])
      H == Len(embed[1])
      onehot == [b \in 1..B |-> [s \in 1..S |-> [t \in 1..vocab_size |-> IF t - 1 = tok.input_ids[b][s] THEN 1 ELSE 0]]]
      hh == [b \in 1..B |-> [s \in 1..S |-> [h \in 1..H |-> SumSeq([t \in 1..vocab_size |-> onehot[b][s][t] * embed[t][h]])]]]
      embedded == [h \in 1..H |-> SumSeq([b \in 1..B |-> SumSeq([s \in 1..S |-> hh[b][s][h] * tok.attention_mask[b][s]])])]
      res == Normalize(embedded, Fine, Eps * Fine)
  IN [l \in 1..num_layers |-> res]

----------------------------------------------------------------------------
(* get_gate_params *)

P1 == <<"a">>
P2 == <<"b", "a">>
PositivePrompts == {<<P1>>, <<P2>>, <<P1, P2>>}
NegativePrompts == {<<>>, <<P2>>}
Expert == [positive_prompts : PositivePrompts, negative_prompts : NegativePrompts]
ExpertLists == UNION {[1..n -> Expert] : n \in 1..MaxExperts}
\* bos_token "" stands for a tokenizer without one (None or empty)
Tokenizers == {[bos_token |-> ""], [bos_token |-> "<s>"]}
WeightSeeds == {0, 4}
RandSeeds == {0, 1}
Modes == {"random", "approach", "uniform_random", "cheap_embed", "hidden", "hidden_avg", "hidden_last", "smart_hidden", "bogus_mode", ""}

\* shapes (layers, experts, hidden) an external classifier may produce
ClassifierShapes == {<<l, e, h>> : l \in {1, model_cfg.num_hidden_layers}, e \in 1..(MaxExperts + 1), h \in {model_cfg.hidden_size, model_cfg.hidden_size + 1}}

\* the closure doit of the smart_hidden branch, as far as the shape of
\* routing_probs goes: the outcome for a classifier output of shape `shape`.
\* get_gate_params never calls it. F is not defined anywhere in the module.
doit(shape, num_experts) ==
  LET want == <<model_cfg.num_hidden_layers, num_experts, model_cfg.hidden_size>>
      layered == IF shape[1] # model_cfg.num_hidden_layers THEN <<model_cfg.num_hidden_layers, shape[2], shape[3]>> ELSE shape
  IN IF shape = want THEN [err |-> "", shape |-> shape]
     ELSE IF layered[2] # num_experts THEN [err |-> "ValueError", shape |-> None]
     ELSE IF layered[3] # model_cfg.hidden_size THEN [err |-> "NameError", shape |-> None]
     ELSE [err |-> "", shape |-> layered]

Event(op, e, which, out) == [op |-> op, expert |-> e, which |-> which, out |-> out]

\* mutant of do_it: the sequence mean is the default, last only for hidden_last
do_it_mean_by_default(m, w, tok) ==
  IF m = "cheap_embed"
  THEN get_cheap_embedding(EmbedWeight(w), tok, model_cfg.num_hidden_layers, model_cfg.vocab_size)
  ELSE get_hidden_states(w, tok, m # "hidden_last")

\* the closure _do_it defined by the cheap_embed and hidden* branches
do_it(m, w, tok) ==
  IF m = "cheap_embed"
  THEN get_cheap_embedding(EmbedWeight(w), tok, model_cfg.num_hidden_layers, model_cfg.vocab_size)
  ELSE get_hidden_states(w, tok, m = "hidden_avg")

\* mutant of Subtract: the negative result is added
AddInstead(x, y) == [l \in 1..Len(x) |-> [h \in 1..Len(x[l]) |-> x[l][h] + y[l][h]]]

\* hidden_states -= other
Subtract(x, y) == [l \in 1..Len(x) |-> [h \in 1..Len(x[l]) |-> x[l][h] - y[l][h]]]

\* the grid of the loop's hidden_states: cheap embeddings are already on the
\* unit grid, where 1e-8 is below one quantum and clamps only a zero norm
NormFine(m) == IF m = "cheap_embed" THEN Fine \div 10 ELSE Fine
NormEps(m) == IF m = "cheap_embed" THEN 1 ELSE Eps * Fine

\* mutant of NormalizeLayers: one norm over the whole tensor (dim=-1 dropped)
NormalizeWhole(x, m) ==
  LET den == Max(Sqrt(SumSeq([l \in 1..Len(x) |-> Dot(x[l], x[l])]) * NormFine(m) * NormFine(m)), NormEps(m))
  IN [l \in 1..Len(x) |-> [h \in 1..Len(x[l]) |-> Div(x[l][h] * OutScale * NormFine(m), den)]]

\* hidden_states /= hidden_states.norm(p=2, dim=-1, keepdim=True).clamp(min=1e-8)
NormalizeLayers(x, m) == [l \in 1..Len(x) |-> Normalize(x[l], NormFine(m), NormEps(m))]

\* mutant of StackPermute: the permute is forgotten
StackOnly(gv) == gv

\* torch.stack(gate_vecs, dim=0).permute(1, 0, 2)
StackPermute(gv) == [l \in 1..Len(gv[1]) |-> [e \in 1..Len(gv) |-> gv[e][l]]]

\* torch.randn on the unit grid
Randn(seed, l, e, h) == (((7 * seed + 13 * l + 5 * e + 3 * h) % 7) - 3) * (OutScale \div 2)

\* torch.rand on the unit grid, in [0, 1)
Rand(seed, l, e, h) == (seed * 389 + l * 211 + e * 97 + h * 53) % OutScale

GateInit ==
  /\ call = "get_gate_params"
  /\ pc = "start"
  /\ mode \in Modes
  /\ experts \in ExpertLists
  /\ tokenizer \in Tokenizers
  /\ weights \in WeightSeeds
  /\ classifier_shape \in (IF mode = "smart_hidden" THEN ClassifierShapes ELSE {<<>>})
  /\ loaded = "none"
  /\ i = 1
  /\ tokenized = None
  /\ hidden_states = None
  /\ gate_vecs = <<>>
  /\ result = None
  /\ err = ""
  /\ trace = <<>>
  /\ threshold = 0
  /\ idx = 0
  /\ degen_indices = <<>>
  /\ log = <<>>

WarnVars == <<threshold, idx, degen_indices, log>>
Inputs == <<call, mode, experts, tokenizer, weights, classifier_shape>>

\* model_cfg = model_ref.config(trust_remote_code=trust_remote_code)
ReadConfig ==
  /\ call = "get_gate_params" /\ pc = "start"
  /\ pc' = "dispatch"
  /\ trace' = Append(trace, Event("config", 0, "", None))
  /\ UNCHANGED <<Inputs, loaded, i, tokenized, hidden_states, gate_vecs, result, err, WarnVars>>

\* mutant of ModeRandom: the expert dimension comes first
ModeRandomExpertsFirst ==
  /\ pc = "dispatch" /\ mode = "random"
  /\ \E seed \in RandSeeds :
       result' = [e \in 1..Len(experts) |-> [l \in 1..model_cfg.num_hidden_layers |-> [h \in 1..model_cfg.hidden_size |-> Randn(seed, l, e, h)]]]
  /\ pc' = "returned"
  /\ UNCHANGED <<Inputs, loaded, i, tokenized, hidden_states, gate_vecs, err, trace, WarnVars>>

ModeRandom ==
  /\ pc = "dispatch" /\ mode = "random"
  /\ \E seed \in RandSeeds :
       result' = [l \in 1..model_cfg.num_hidden_layers |-> [e \in 1..Len(experts) |-> [h \in 1..model_cfg.hidden_size |-> Randn(seed, l, e, h)]]]
  /\ pc' = "returned"
  /\ UNCHANGED <<Inputs, loaded, i, tokenized, hidden_states, gate_vecs, err, trace, WarnVars>>

\* combined_weights is not defined anywhere in the module
ModeApproach ==
  /\ pc = "dispatch" /\ mode = "approach"
  /\ err' = "NameError"
  /\ pc' = "raised"
  /\ UNCHANGED <<Inputs, loaded, i, tokenized, hidden_states, gate_vecs, result, trace, WarnVars>>

ModeUniformRandom ==
  /\ pc = "dispatch" /\ mode = "uniform_random"
  /\ LET in_features == model_cfg.hidden_size
         scale == Sqrt((OutScale * OutScale) \div in_features)
     IN \E seed \in RandSeeds :
          result' = [l \in 1..model_cfg.num_hidden_layers |-> [e \in 1..Len(experts) |-> [h \in 1..model_cfg.hidden_size |-> Div(Rand(seed, l, e, h) * 2 * scale, OutScale) - scale]]]
  /\ pc' = "returned"
  /\ UNCHANGED <<Inputs, loaded, i, tokenized, hidden_states, gate_vecs, err, trace, WarnVars>>

\* embed = model_ref.lazy_loader(...).get_tensor("model.embed_tokens.weight")
ModeCheapEmbed ==
  /\ pc = "dispatch" /\ mode = "cheap_embed"
  /\ loaded' = "embed"
  /\ trace' = Append(trace, Event("load_embed", 0, "", None))
  /\ pc' = "loop"
  /\ UNCHANGED <<Inputs, i, tokenized, hidden_states, gate_vecs, result, err, WarnVars>>

\* model = AutoModelForCausalLM.from_pretrained(...)
ModeHidden ==
  /\ pc = "dispatch" /\ mode \in {"hidden", "hidden_avg", "hidden_last"}
  /\ loaded' = "model"
  /\ trace' = Append(trace, Event("load_model", 0, "", None))
  /\ pc' = "loop"
  /\ UNCHANGED <<Inputs, i, tokenized, hidden_states, gate_vecs, result, err, WarnVars>>

ModeSmartHidden ==
  /\ pc = "dispatch" /\ mode = "smart_hidden"
  /\ loaded' = "model"
  /\ trace' = Append(trace, Event("load_model", 0, "", None))
  /\ pc' = "load_classifier"
  /\ UNCHANGED <<Inputs, i, tokenized, hidden_states, gate_vecs, result, err, WarnVars>>

\* classifier = load_pretrained_classifier(): the name is not defined anywhere
LoadClassifier ==
  /\ pc = "load_classifier"
  /\ err' = "NameError"
  /\ pc' = "raised"
  /\ UNCHANGED <<Inputs, loaded, i, tokenized, hidden_states, gate_vecs, result, trace, WarnVars>>

\* mutant of ModeUnknown: no else branch, the call goes on to the expert loop
ModeUnknownFallsThrough ==
  /\ pc = "dispatch"
  /\ mode \notin {"random", "approach", "uniform_random", "cheap_embed", "hidden", "hidden_avg", "hidden_last", "smart_hidden"}
  /\ pc' = "loop"
  /\ UNCHANGED <<Inputs, loaded, i, tokenized, hidden_states, gate_vecs, result, err, trace, WarnVars>>

\* raise ValueError(f"Unknown routing mode: {mode}")
ModeUnknown ==
  /\ pc = "dispatch"
  /\ mode \notin {"random", "approach", "uniform_random", "cheap_embed", "hidden", "hidden_avg", "hidden_last", "smart_hidden"}
  /\ err' = "ValueError"
  /\ pc' = "raised"
  /\ UNCHANGED <<Inputs, loaded, i, tokenized, hidden_states, gate_vecs, result, trace, WarnVars>>

TokenizePositive ==
  /\ pc = "loop" /\ i <= Len(experts)
  /\ tokenized' = tokenize_prompts(experts[i].positive_prompts, tokenizer)
  /\ trace' = Append(trace, Event("tokenize", i, "pos", None))
  /\ pc' = "embed_pos"
  /\ UNCHANGED <<Inputs, loaded, i, hidden_states, gate_vecs, result, err, WarnVars>>

\* mutant of EmbedPositive: the negative prompts are never looked at
EmbedPositiveOnly ==
  /\ pc = "embed_pos"
  /\ hidden_states' = do_it(mode, weights, tokenized)
  /\ trace' = Append(trace, Event("strategy", i, "pos", hidden_states'))
  /\ pc' = "normalize"
  /\ UNCHANGED <<Inputs, loaded, i, tokenized, gate_vecs, result, err, WarnVars>>

EmbedPositive ==
  /\ pc = "embed_pos"
  /\ hidden_states' = do_it(mode, weights, tokenized)
  /\ trace' = Append(trace, Event("strategy", i, "pos", hidden_states'))
  /\ pc' = IF experts[i].negative_prompts # <<>> THEN "tok_neg" ELSE "normalize"
  /\ UNCHANGED <<Inputs, loaded, i, tokenized, gate_vecs, result, err, WarnVars>>

TokenizeNegative ==
  /\ pc = "tok_neg"
  /\ tokenized' = tokenize_prompts(experts[i].negative_prompts, tokenizer)
  /\ trace' = Append(trace, Event("tokenize", i, "neg", None))
  /\ pc' = "embed_neg"
  /\ UNCHANGED <<Inputs, loaded, i, hidden_states, gate_vecs, result, err, WarnVars>>

EmbedNegative ==
  /\ pc = "embed_neg"
  /\ LET other == do_it(mode, weights, tokenized)
     IN /\ hidden_states' = Subtract(hidden_states, other)
        /\ trace' = Append(trace, Event("strategy", i, "neg", other))
  /\ pc' = "normalize"
  /\ UNCHANGED <<Inputs, loaded, i, tokenized, gate_vecs, result, err, WarnVars>>

NormalizeAppend ==
  /\ pc = "normalize"
  /\ hidden_states' = NormalizeLayers(hidden_states, mode)
  /\ gate_vecs' = Append(gate_vecs, hidden_states')
  /\ trace' = Append(trace, Event("normalize", i, "", hidden_states))
  /\ i' = i + 1
  /\ pc' = "loop"
  /\ UNCHANGED <<Inputs, loaded, tokenized, result, err, WarnVars>>

StackReturn ==
  /\ call = "get_gate_params" /\ pc = "loop" /\ i > Len(experts)
  /\ result' = StackPermute(gate_vecs)
  /\ pc' = "returned"
  /\ UNCHANGED <<Inputs, loaded, i, tokenized, hidden_states, gate_vecs, err, trace, WarnVars>>

----------------------------------------------------------------------------
(* warn_degenerate_gates, on tensors of two experts *)

DefaultThreshold == 5
Thresholds == {1, 2, DefaultThreshold}

\* a row of hidden_size entries: x first, y last, zero between
Row(x, y) == [h \in 1..HiddenSize |-> IF h = 1 THEN x ELSE IF h = HiddenSize THEN y ELSE 0]

\* (experts, hidden) slices: orthogonal rows, identical rows, near-identical
\* rows, moderately separated rows, all zero
LayerMatrices == {<<Row(3, 0), Row(0, 3)>>, <<Row(2, 1), Row(2, 1)>>, <<Row(3, 2), Row(3, 3)>>, <<Row(3, 0), Row(3, 3)>>, <<Row(0, 0), Row(0, 0)>>}

GateTensors == UNION {[1..n -> LayerMatrices] : n \in 1..MaxWarnLayers}

\* trace and determinant of M M^T, whose eigenvalues are the squared singular values
Gram(M) == [tr |-> Dot(M[1], M[1]) + Dot(M[2], M[2]), det |-> Dot(M[1], M[1]) * Dot(M[2], M[2]) - Dot(M[1], M[2]) * Dot(M[1], M[2])]

\* torch.linalg.cond(M) > t for a two-row M and an integer t >= 1: with
\* s = sqrt(tr^2 - 4 det), cond^2 = (tr + s) / (tr - s); cond is inf for a
\* rank-one M (det = 0) and nan for the zero matrix, and nan > t is False
CondExceeds(M, t) ==
  LET g == Gram(M)
  IN (g.tr * g.tr - 4 * g.det) * (t * t + 1) * (t * t + 1) > (t * t - 1) * (t * t - 1) * g.tr * g.tr

RECURSIVE Join(_, _)
Join(s, sep) == IF s = <<>> THEN "" ELSE IF Len(s) = 1 THEN ToString(Head(s)) ELSE ToString(Head(s)) \o sep \o Join(Tail(s), sep)

WarnInit ==
  /\ call = "warn_degenerate_gates"
  /\ pc = "scan"
  /\ gate_vecs \in GateTensors
  /\ threshold \in Thresholds
  /\ idx = 0
  /\ degen_indices = <<>>
  /\ log = <<>>
  /\ mode = ""
  /\ experts = <<>>
  /\ tokenizer = [bos_token |-> ""]
  /\ weights = 0
  /\ classifier_shape = <<>>
  /\ loaded = "none"
  /\ i = 1
  /\ tokenized = None
  /\ hidden_states = None
  /\ result = None
  /\ err = ""
  /\ trace = <<>>

GateVars == <<mode, experts, tokenizer, weights, classifier_shape, loaded, i, tokenized, hidden_states, result, err, trace>>

\* cond(M) >= t, in the same closed form (False for the nan of a zero matrix)
CondAtLeast(M, t) ==
  LET g == Gram(M)
  IN g.tr > 0 /\ (g.tr * g.tr - 4 * g.det) * (t * t + 1) * (t * t + 1) >= (t * t - 1) * (t * t - 1) * g.tr * g.tr

\* mutant of ScanLayer: c >= threshold
ScanLayerAtLeast ==
  /\ call = "warn_degenerate_gates" /\ pc = "scan" /\ idx < Len(gate_vecs)
  /\ degen_indices' = IF CondAtLeast(gate_vecs[idx + 1], threshold) THEN Append(degen_indices, idx) ELSE degen_indices
  /\ idx' = idx + 1
  /\ UNCHANGED <<call, pc, gate_vecs, threshold, log, GateVars>>

\* one iteration of: for idx in range(num_layers)
ScanLayer ==
  /\ call = "warn_degenerate_gates" /\ pc = "scan" /\ idx < Len(gate_vecs)
  /\ degen_indices' = IF CondExceeds(gate_vecs[idx + 1], threshold) THEN Append(degen_indices, idx) ELSE degen_indices
  /\ idx' = idx + 1
  /\ UNCHANGED <<call, pc, gate_vecs, threshold, log, GateVars>>

\* mutant of LayerWarning: the ALL-layers test comes first
LayerWarningAllFirst(degen, num_layers) ==
  LET layer_str == IF Len(degen) >= num_layers THEN "ALL layers"
                   ELSE IF Len(degen) = 1 THEN "layer " \o ToString(degen[1])
                   ELSE IF Len(degen) = 2 THEN "layers " \o Join(degen, " and ")
                   ELSE "layers " \o Join(SubSeq(degen, 1, Len(degen) - 1), ", ") \o ", and " \o ToString(degen[Len(degen)])
      verb == IF Len(degen) = 1 /\ num_layers > 1 THEN "has" ELSE "have"
  IN layer_str \o " " \o verb \o " degenerate routing parameters - your prompts may be too similar."

\* the text of the first warning
LayerWarning(degen, num_layers) ==
  LET layer_str == IF Len(degen) = 1 THEN "layer " \o ToString(degen[1])
                   ELSE IF Len(degen) = 2 THEN "layers " \o Join(degen, " and ")
                   ELSE IF Len(degen) >= num_layers THEN "ALL layers"
                   ELSE "layers " \o Join(SubSeq(degen, 1, Len(degen) - 1), ", ") \o ", and " \o ToString(degen[Len(degen)])
      verb == IF Len(degen) = 1 THEN "has" ELSE "have"
  IN layer_str \o " " \o verb \o " degenerate routing parameters - your prompts may be too similar."

UnderutilizedWarning == "One or more experts will be underutilized in your model."

\* if degen_indices: ... two logging.warning calls; then the function returns
Report ==
  /\ call = "warn_degenerate_gates" /\ pc = "scan" /\ idx >= Len(gate_vecs)
  /\ log' = IF degen_indices # <<>> THEN log \o <<LayerWarning(degen_indices, Len(gate_vecs)), UnderutilizedWarning>> ELSE log
  /\ pc' = "returned"
  /\ UNCHANGED <<call, gate_vecs, threshold, idx, degen_indices, GateVars>>

Init == GateInit \/ WarnInit

Next ==
  \/ ReadConfig
  \/ ModeRandom
  \/ ModeApproach
  \/ ModeUniformRandom
  \/ ModeCheapEmbed
  \/ ModeHidden
  \/ ModeSmartHidden
  \/ LoadClassifier
  \/ ModeUnknown
  \/ TokenizePositive
  \/ EmbedPositive
  \/ TokenizeNegative
  \/ EmbedNegative
  \/ NormalizeAppend
  \/ StackReturn
  \/ ScanLayer
  \/ Report

Spec == Init /\ [][Next]_vars

----------------------------------------------------------------------------
(* Vocabulary of the properties *)

PromptModes == {"cheap_embed", "hidden", "hidden_avg", "hidden_last"}
HiddenModes == {"hidden", "hidden_avg", "hidden_last"}
DispatchedModes == {"random", "approach", "uniform_random", "cheap_embed", "hidden", "hidden_avg", "hidden_last", "smart_hidden"}

InGate == call = "get_gate_params"
InWarn == call = "warn_degenerate_gates"

Ops(op) == {k \in 1..Len(trace) : trace[k].op = op}
TraceOps == [k \in 1..Len(trace) |-> <<trace[k].op, trace[k].expert, trace[k].which>>]
IsPrefix(s, t) == Len(s) <= Len(t) /\ s = SubSeq(t, 1, Len(s))

\* the batches of expert e, and what the selected strategy yields on them
PosBatch(e) == tokenize_prompts(experts[e].positive_prompts, tokenizer)
NegBatch(e) == tokenize_prompts(experts[e].negative_prompts, tokenizer)
HasNeg(e) == experts[e].negative_prompts # <<>>
PosVec(e) == do_it(mode, weights, PosBatch(e))
NegVec(e) == do_it(mode, weights, NegBatch(e))

\* the tensor handed to the normalisation for expert e (the "normalize" event)
PreNorm(e) == trace[CHOOSE k \in Ops("normalize") : trace[k].expert = e].out

Abs(x) == IF x < 0 THEN -x ELSE x
Zero(v) == \A h \in 1..Len(v) : v[h] = 0
\* |norm^2 - 1| <= 2%
UnitNorm(r) == Abs(Dot(r, r) - OutScale * OutScale) * 50 <= OutScale * OutScale
\* the norm of v is at least 1e-8; on the unit grid every non-zero norm is
AboveEps(v, m) == IF m = "cheap_embed" THEN Dot(v, v) > 0 ELSE Dot(v, v) >= Eps * Eps

----------------------------------------------------------------------------
\* C1: in the prompt-based modes the returned tensor has shape
\* (layers, experts, hidden) and its vector at [l][e] is the normalised layer-l
\* vector computed from the prompts of the e-th expert of the input list.
C1_ShapeAndOrder ==
  (InGate /\ pc = "returned" /\ mode \in PromptModes) =>
    /\ Len(result) = model_cfg.num_hidden_layers
    /\ \A l \in 1..Len(result) :
         /\ Len(result[l]) = Len(experts)
         /\ \A e \in 1..Len(experts) : Len(result[l][e]) = model_cfg.hidden_size
    /\ \A e \in 1..Len(experts) :
         LET combined == IF HasNeg(e) THEN Subtract(PosVec(e), NegVec(e)) ELSE PosVec(e)
         IN \A l \in 1..Len(result) : result[l][e] = Normalize(combined[l], NormFine(mode), NormEps(mode))

C1_Witness ==
  /\ InGate /\ pc = "returned" /\ mode \in PromptModes
  /\ Len(experts) = 2
  /\ result[1][1] # result[1][2]
  /\ result[1][1] # result[2][1]
  /\ result[1][2] # result[2][1]

\* C2: the tensor that is normalised is exactly a - b elementwise when the
\* expert has negative prompts (a, b the strategy's results on the positive
\* and negative batches) and exactly a, from a single invocation, otherwise.
C2_Subtraction ==
  InGate =>
    \A k \in Ops("normalize") :
      LET e == trace[k].expert
          v == trace[k].out
          calls == {j \in Ops("strategy") : trace[j].expert = e}
      IN /\ gate_vecs[e] = NormalizeLayers(v, mode)
         /\ IF HasNeg(e)
            THEN /\ Cardinality(calls) = 2
                 /\ \E ja, jb \in calls :
                      /\ trace[ja].which = "pos" /\ trace[ja].out = PosVec(e)
                      /\ trace[jb].which = "neg" /\ trace[jb].out = NegVec(e)
                      /\ ja < jb
                      /\ \A l \in 1..Len(v) : \A h \in 1..Len(v[l]) : v[l][h] = trace[ja].out[l][h] - trace[jb].out[l][h]
            ELSE /\ Cardinality(calls) = 1
                 /\ \A j \in calls : trace[j].which = "pos" /\ trace[j].out = PosVec(e) /\ v = trace[j].out

C2_Witness ==
  /\ InGate
  /\ \E k \in Ops("normalize") :
       /\ HasNeg(trace[k].expert)
       /\ ~(\A l \in 1..Len(NegVec(trace[k].expert)) : Zero(NegVec(trace[k].expert)[l]))
       /\ trace[k].out # PosVec(trace[k].expert)
  /\ \E k \in Ops("normalize") : ~HasNeg(trace[k].expert)

\* what a strategy invocation of the hidden* modes must return when the
\* sequence dimension is reduced by the mean (avg) or by the last position
Reduced(avg, batch) ==
  LET out == ModelForward(weights, batch)
      kept == [k \in 1..(Len(out) - 1) |-> out[k]]
  IN MeanOverBatch(IF avg THEN MeanOverSeq(kept) ELSE LastOverSeq(kept))

EventBatch(k) == IF trace[k].which = "pos" THEN PosBatch(trace[k].expert) ELSE NegBatch(trace[k].expert)

\* C3 as stated: hidden_avg and plain hidden reduce by the mean over sequence
\* positions, hidden_last takes the last position; then the batch mean, with
\* the final hidden-state layer excluded.
C3_Original ==
  (InGate /\ mode \in HiddenModes) =>
    \A k \in Ops("strategy") : trace[k].out = Reduced(mode \in {"hidden", "hidden_avg"}, EventBatch(k))

\* C3 as amended: only hidden_avg reduces by the mean over sequence positions;
\* plain hidden and hidden_last both take the last position; in all three the
\* result is averaged over the batch and the final hidden-state layer excluded.
C3_Reduction ==
  (InGate /\ mode \in HiddenModes) =>
    \A k \in Ops("strategy") :
      /\ Len(trace[k].out) = model_cfg.num_hidden_layers
      /\ trace[k].out = Reduced(mode = "hidden_avg", EventBatch(k))

C3_Witness ==
  /\ InGate /\ mode = "hidden"
  /\ \E k \in Ops("strategy") :
       /\ Len(EventBatch(k).input_ids) > 1
       /\ Len(EventBatch(k).input_ids[1]) > 1
       /\ Reduced(TRUE, EventBatch(k)) # Reduced(FALSE, EventBatch(k))
       /\ trace[k].out = Reduced(FALSE, EventBatch(k))

\* C4: a mode string the dispatch does not recognise fails with the
\* configuration error (ValueError) before any prompt is tokenized, any
\* strategy invoked or any expert processed, and never returns a value.
C4_UnknownModeFails ==
  (InGate /\ mode \notin DispatchedModes) =>
    /\ pc \in {"start", "dispatch", "raised"}
    /\ pc = "raised" => err = "ValueError"
    /\ pc # "raised" => err = ""
    /\ result = None
    /\ Ops("tokenize") = {} /\ Ops("strategy") = {} /\ Ops("normalize") = {}
    /\ Ops("load_model") = {} /\ Ops("load_embed") = {}
    /\ gate_vecs = <<>> /\ i = 1 /\ loaded = "none"

C4_Witness == InGate /\ mode = "bogus_mode" /\ pc = "raised" /\ err = "ValueError"

\* C5: random and uniform_random return a (layers, experts, hidden) tensor
\* without tokenizing, without running a strategy or the per-expert loop, and
\* without loading the model or any weight tensor.
C5_RandomBypass ==
  (InGate /\ mode \in {"random", "uniform_random"}) =>
    /\ pc \in {"start", "dispatch", "returned"}
    /\ err = ""
    /\ Ops("tokenize") = {} /\ Ops("strategy") = {} /\ Ops("normalize") = {}
    /\ Ops("load_model") = {} /\ Ops("load_embed") = {}
    /\ loaded = "none" /\ gate_vecs = <<>> /\ i = 1
    /\ pc = "returned" =>
         /\ Len(result) = model_cfg.num_hidden_layers
         /\ \A l \in 1..Len(result) :
              /\ Len(result[l]) = Len(experts)
              /\ \A e \in 1..Len(result[l]) : Len(result[l][e]) = model_cfg.hidden_size

C5_Witness ==
  /\ InGate /\ mode = "uniform_random" /\ pc = "returned"
  /\ Len(experts) = 2
  /\ \E e \in 1..Len(experts) : HasNeg(e)

\* C6 as stated: in the classifier mode, whenever the classifier's expert
\* dimension differs from the number of experts the call fails with the
\* shape-mismatch error and returns nothing; a mismatch on the layer dimension
\* alone is not fatal.
C6_ShapeMismatchFatal ==
  (InGate /\ mode = "smart_hidden" /\ pc \in {"raised", "returned"}) =>
    IF classifier_shape[2] # Len(experts)
    THEN err = "ValueError" /\ result = None
    ELSE classifier_shape[3] = model_cfg.hidden_size => err = ""

\* C8 as stated: every returned (layer, expert) vector has L2 norm 1, the only
\* exception being an all-zero pre-normalisation vector, returned all zero.
C8_Original ==
  (InGate /\ pc = "returned" /\ mode \in PromptModes) =>
    \A l \in 1..Len(result) : \A e \in 1..Len(experts) :
      \/ UnitNorm(result[l][e])
      \/ Zero(PreNorm(e)[l]) /\ Zero(result[l][e])

\* C8 as amended: every returned (layer, expert) vector whose pre-normalisation
\* vector (after any subtraction) has norm at least 1e-8 has L2 norm 1; a
\* pre-normalisation vector of norm below 1e-8 is returned divided by 1e-8,
\* with norm below 1, and the all-zero vector is returned all zero.
C8_UnitNorm ==
  (InGate /\ pc = "returned" /\ mode \in PromptModes) =>
    \A l \in 1..Len(result) : \A e \in 1..Len(experts) :
      LET v == PreNorm(e)[l]
          r == result[l][e]
      IN IF AboveEps(v, mode)
         THEN UnitNorm(r)
         ELSE /\ \A h \in 1..Len(v) : r[h] = Div(v[h] * OutScale, Eps)
              /\ Dot(r, r) < OutScale * OutScale
              /\ Zero(v) => Zero(r)

C8_Witness ==
  /\ InGate /\ pc = "returned" /\ mode \in HiddenModes
  /\ \E l \in 1..Len(result) : \E e \in 1..Len(experts) : ~Zero(PreNorm(e)[l]) /\ ~AboveEps(PreNorm(e)[l], mode)
  /\ \E l \in 1..Len(result) : \E e \in 1..Len(experts) : Zero(PreNorm(e)[l])
  /\ \E l \in 1..Len(result) : \E e \in 1..Len(experts) : HasNeg(e) /\ AboveEps(PreNorm(e)[l], mode)

\* the calls get_gate_params is to make for expert e, in order
ExpertCalls(e) ==
  <<<<"tokenize", e, "pos">>, <<"strategy", e, "pos">>>>
    \o (IF HasNeg(e) THEN <<<<"tokenize", e, "neg">>, <<"strategy", e, "neg">>>> ELSE <<>>)
    \o <<<<"normalize", e, "">>>>

RECURSIVE CallsUpTo(_)
CallsUpTo(n) == IF n = 0 THEN <<>> ELSE CallsUpTo(n - 1) \o ExpertCalls(n)

ExpectedTrace == <<<<"config", 0, "">>, <<IF mode = "cheap_embed" THEN "load_embed" ELSE "load_model", 0, "">>>> \o CallsUpTo(Len(experts))

C9_Order ==
  (InGate /\ mode \in PromptModes) =>
    /\ IsPrefix(TraceOps, ExpectedTrace)
    /\ pc = "returned" =>
         /\ TraceOps = ExpectedTrace
         /\ Cardinality(Ops("load_model") \cup Ops("load_embed")) = 1
         /\ Cardinality(Ops("strategy")) = Len(experts) + Cardinality({e \in 1..Len(experts) : HasNeg(e)})

\* C9: in the prompt-based modes the one-time load happens exactly once and
\* before the first tokenization; experts are processed in input order, each
\* one completely (positive prompts, then negative prompts if any, then
\* normalise and append) before the next; the strategy runs once per expert plus
\* once per expert with negative prompts; the checkpoint and the expert list
\* are never changed.
C9_Sequential == []C9_Order /\ [][weights' = weights /\ experts' = experts /\ (loaded # "none" => loaded' = loaded)]_vars

C9_Witness ==
  /\ InGate /\ mode \in PromptModes /\ pc = "returned"
  /\ Len(experts) = 2
  /\ HasNeg(1) /\ ~HasNeg(2)

\* C7: the diagnostic scans every layer, flags a layer exactly when its
\* condition number strictly exceeds the threshold, returns without raising
\* and without changing the tensor, and logs exactly when a layer is flagged.
C7_Inv ==
  InWarn =>
    /\ err = ""
    /\ pc = "returned" \/ ENABLED (ScanLayer \/ Report)
    /\ \A l \in 0..(idx - 1) : (\E k \in 1..Len(degen_indices) : degen_indices[k] = l) <=> CondExceeds(gate_vecs[l + 1], threshold)
    /\ pc = "returned" =>
         /\ idx = Len(gate_vecs)
         /\ (log # <<>>) <=> (\E l \in 1..Len(gate_vecs) : CondExceeds(gate_vecs[l], threshold))

C7_Diagnostic == []C7_Inv /\ [][InWarn => gate_vecs' = gate_vecs /\ threshold' = threshold]_vars

C7_Witness ==
  /\ InWarn /\ pc = "returned" /\ threshold = DefaultThreshold
  /\ Len(gate_vecs) >= 2
  /\ gate_vecs[1][1] = gate_vecs[1][2]
  /\ degen_indices = <<0>>
  /\ log # <<>>

AllFlagged == Len(degen_indices) = Len(gate_vecs)
FirstWarning(layers) == layers \o " degenerate routing parameters - your prompts may be too similar."

\* "a, b, and c" for three or more indices
RECURSIVE Listed(_)
Listed(s) == IF Len(s) = 1 THEN "and " \o ToString(s[1]) ELSE ToString(s[1]) \o ", " \o Listed(Tail(s))

\* C10 as stated: two warnings in order, the first one with the "ALL layers"
\* phrasing whenever every layer is flagged, for any number of layers.
C10_Original ==
  (InWarn /\ pc = "returned" /\ degen_indices # <<>>) =>
    /\ Len(log) = 2
    /\ log[2] = UnderutilizedWarning
    /\ AllFlagged => log[1] = FirstWarning("ALL layers have")

\* C10 as amended: when a layer is flagged exactly two warnings are emitted,
\* after the scan, the flagged layers first and the underutilisation second.
\* The first warning is "layer i has" when exactly one layer is flagged and
\* "layers i and j have" when exactly two are, also when these are all the
\* layers of the tensor; it is "ALL layers have" when three or more layers are
\* flagged and they are all the layers; otherwise it lists the flagged indices
\* in ascending order.
C10_Warnings ==
  InWarn =>
    /\ pc # "returned" => log = <<>>
    /\ (pc = "returned" /\ degen_indices = <<>>) => log = <<>>
    /\ (pc = "returned" /\ degen_indices # <<>>) =>
         /\ Len(log) = 2
         /\ log[2] = UnderutilizedWarning
         /\ \A a, b \in 1..Len(degen_indices) : a < b => degen_indices[a] < degen_indices[b]
         /\ Len(degen_indices) = 1 => log[1] = FirstWarning("layer " \o ToString(degen_indices[1]) \o " has")
         /\ Len(degen_indices) = 2 => log[1] = FirstWarning("layers " \o ToString(degen_indices[1]) \o " and " \o ToString(degen_indices[2]) \o " have")
         /\ (Len(degen_indices) >= 3 /\ AllFlagged) => log[1] = FirstWarning("ALL layers have")
         /\ (Len(degen_indices) >= 3 /\ ~AllFlagged) => log[1] = FirstWarning("layers " \o Listed(degen_indices) \o " have")

C10_Witness ==
  /\ InWarn /\ pc = "returned"
  /\ Len(gate_vecs) = 2 /\ AllFlagged
  /\ log = <<FirstWarning("layers 0 and 1 have"), UnderutilizedWarning>>

====
